---- MODULE Spec2Model ----
(***************************************************************************)
(* A model of the document_cleaner core (src/src/lib.rs):                  *)
(* ImageAnalyzer::analyze (whitening pass, raster scan, Grapheme::detect   *)
(* flood fill) followed by ImageCleaner::clean (noise classification and   *)
(* rendering).                                                             *)
(*                                                                         *)
(* Unsigned arithmetic keeps its width.  Rust integer overflow is not      *)
(* undefined, but its outcome depends on the build: with overflow checks   *)
(* (the default of a debug build) the operation panics, without them (the  *)
(* default of a release build) it wraps modulo the word size.  The build   *)
(* is the variable overflow_checks, fixed in Init; both are explored.      *)
(***************************************************************************)
EXTENDS Integers, Sequences, FiniteSets, TLC

VARIABLES
    image,            \* the decoded RgbImage handed to analyze: [width, height, px]
    analyzer,         \* the ImageAnalyzer configuration
    cleaner,          \* the ImageCleaner configuration last handed to clean
    overflow_checks,  \* TRUE: arithmetic overflow panics; FALSE: it wraps
    pc,               \* where the analyze/clean pipeline stands
    visited_map,      \* VisitedMap.map, a function of the pixel
    background,       \* the pixels marked by the whitening loop (the background mask)
    window_log,       \* per pixel, the darkest_pixel_within call the whitening loop made
    analyzed_image,   \* the AnalyzedImage under construction / returned
    scan,             \* position of the second enumerate_pixels loop of analyze
    grapheme,         \* Grapheme::detect's grapheme under construction
    stack,            \* Grapheme::detect's explicit stack
    new_image,        \* the image clean returns
    decisions,        \* per grapheme, the locals clean computed for it
    push_count,       \* per pixel, how often analyze pushed it on a flood-fill stack
    \* is_isolated applied to a grapheme list
    iso_pc,           \* "off", "call" (arguments chosen) or "returned"
    iso_graphemes,    \* the grapheme list handed to is_isolated
    iso_index,        \* its grapheme_index argument
    iso_cleaner,      \* the ImageCleaner it is a method of
    iso_result,       \* what the call returned and the indices it looked at
    \* batch export (main.rs, export_all)
    image_paths,      \* per page of the batch, what happens to its file
    export_task,      \* the export task: "none", "spawned", "running", "finished",
                      \* "panicked" or "cancelled"
    export_i,         \* the loop index of export_all
    export_progess,   \* the shared progress, a fraction <<numerator, denominator>>
    export_saved,     \* the pages (0-based) whose cleaned image was written
    \* preview pipeline (main.rs, update)
    previews_needs_analyze,
    previews_needs_clean,
    analyze_preview_task,    \* "none", "running" or "finished" (not yet seen by update)
    clean_preview_task,      \* "none", "running" or "finished" (not yet seen by update)
    preview_rev,             \* how many times a new preview analysis was queued
    analyze_input,           \* the preview_rev of the image the analyze task was given
    analyzed_preview_image,  \* the preview_rev the shared AnalyzedImage stems from
    cleaned_preview_image,   \* the preview_rev the shared cleaned image stems from
    preview_image_handle,    \* the preview_rev of the texture on screen
    update_log               \* what the last call of update spawned

\* The variables of the analyze/clean pipeline.
coreVars == <<image, analyzer, cleaner, overflow_checks, pc, visited_map, background,
              window_log, analyzed_image, scan, grapheme, stack, new_image, decisions,
              push_count>>

\* The variables of a call of is_isolated on its own.
isoVars == <<iso_pc, iso_graphemes, iso_index, iso_cleaner, iso_result>>

\* The variables of the batch export.
exportVars == <<image_paths, export_task, export_i, export_progess, export_saved>>

\* The variables of the preview pipeline.
previewVars == <<previews_needs_analyze, previews_needs_clean, analyze_preview_task,
                 clean_preview_task, preview_rev, analyze_input, analyzed_preview_image,
                 cleaned_preview_image, preview_image_handle, update_log>>

vars == <<coreVars, isoVars, exportVars, previewVars>>

\* What the analyze/clean pipeline leaves alone.
outsideCore == <<isoVars, exportVars, previewVars>>

(***************************************************************************)
(* Bounds of the model.                                                    *)
(***************************************************************************)
\* An image has at most MaxPixels pixels (width * height <= MaxPixels).
MaxPixels == 6
\* At most MaxInk pixels of an image are not plain white.
MaxInk == 3
\* lightness_distance ranges over 0..MaxDistance.
MaxDistance == 1

(***************************************************************************)
(* Program constants.                                                      *)
(***************************************************************************)
\* TLC's integers are 32-bit signed and cannot hold 2^32, so the u32 word of the
\* program is narrowed to 30 bits.  Every coordinate, size and threshold of the
\* model is far below either modulus, so a wrapped result exceeds all of them,
\* as it does in the program, and u32::MAX stays the largest word.
U32Modulus == 1073741824
DefaultOffWhiteThreshold == 240
DefaultLightnessThreshold == 100
DefaultSpeckSizeThreshold == 15
DefaultPageMargin == 50
DefaultIsolationDistanceThreshold == 50
DefaultIsolationSizeThreshold == 80

U32Max == U32Modulus - 1

\* Option: None, and the two values of an Option<bool>.
None == "None"

\* A local or a result that holds no value yet.
Unset == [unset |-> TRUE]
SomeTrue == "Some(true)"
SomeFalse == "Some(false)"

White == <<255, 255, 255>>
Magenta == <<255, 0, 255>>
\* Two colours of ink: a dark one (mean 60) and a moderately light one (mean 150).
Dark == <<30, 60, 90>>
Light == <<200, 100, 150>>
InkColours == {Dark, Light}

MinOf(S) == CHOOSE m \in S : \A n \in S : m <= n
MaxOf(S) == CHOOSE m \in S : \A n \in S : m >= n

(***************************************************************************)
(* u32 arithmetic: the wrapped value and whether the operation overflowed. *)
(***************************************************************************)
U32Sub(a, b) ==
    [v |-> (a - b) % U32Modulus, overflow |-> a < b]

U32Add(a, b) ==
    [v |-> (a + b) % U32Modulus, overflow |-> a + b > U32Max]

(***************************************************************************)
(* Images.                                                                 *)
(***************************************************************************)
Pixels(w, h) == (0 .. w - 1) \X (0 .. h - 1)

ImagePixels == Pixels(image.width, image.height)

\* enumerate_pixels: row-major, x fastest. The k-th pixel (from 0).
PixelAt(k, w) == <<k % w, k \div w>>

pixel_value(pixel) ==
    ((pixel[1] + pixel[2] + pixel[3]) \div 3) % 256

Shapes ==
    {s \in (0 .. MaxPixels) \X (0 .. MaxPixels) : s[1] * s[2] <= MaxPixels}

ImagesOf(w, h) ==
    { [width |-> w, height |-> h,
       px |-> [p \in Pixels(w, h) |-> IF p \in DOMAIN col THEN col[p] ELSE White]] :
         col \in UNION { [ink -> InkColours] :
                           ink \in {s \in SUBSET Pixels(w, h) : Cardinality(s) <= MaxInk} } }

Analyzers ==
    { [off_white_threshold |-> DefaultOffWhiteThreshold,
       lightness_threshold |-> DefaultLightnessThreshold,
       lightness_distance |-> d] : d \in 0 .. MaxDistance }

DefaultCleaner ==
    [speck_size_threshold |-> DefaultSpeckSizeThreshold,
     page_margins |-> <<DefaultPageMargin, DefaultPageMargin>>,
     isolation_distance_threshold |-> DefaultIsolationDistanceThreshold,
     isolation_size_threshold |-> DefaultIsolationSizeThreshold,
     speck_fill_color |-> White,
     background_fill_color |-> White]

(***************************************************************************)
(* darkest_pixel_within: the window scan of the whitening pass.            *)
(* The lower bounds are u32 subtractions followed by .max(0), which is a   *)
(* no-op on a u32.  x - distance is evaluated once per row, so only when   *)
(* the row range is not empty.                                             *)
(***************************************************************************)
darkest_pixel_within(x, y, distance, img) ==
    LET ylo == U32Sub(y, distance)
        yhi == U32Add(y, distance)
        hm1 == U32Sub(img.height, 1)
        ys == MaxOf({ylo.v, 0}) .. MinOf({yhi.v, hm1.v})
        xlo == U32Sub(x, distance)
        xhi == U32Add(x, distance)
        wm1 == U32Sub(img.width, 1)
        xs == IF ys = {} THEN {} ELSE MaxOf({xlo.v, 0}) .. MinOf({xhi.v, wm1.v})
        seen == {pixel_value(img.px[<<xx, yy>>]) : xx \in xs, yy \in ys}
    IN  [darkest |-> MinOf(seen \cup {255}),
         scanned |-> xs \X ys,
         overflow |-> \/ ylo.overflow \/ yhi.overflow \/ hm1.overflow
                      \/ (ys # {} /\ (xlo.overflow \/ xhi.overflow \/ wm1.overflow))]

(***************************************************************************)
(* The whitening loop of analyze, pixel by pixel in enumerate_pixels order. *)
(* acc = [visited, log, panicked].                                         *)
(***************************************************************************)
RECURSIVE WhitenLoop(_, _, _, _, _)
WhitenLoop(k, img, an, oc, acc) ==
    IF k >= img.width * img.height THEN acc
    ELSE
        LET p == PixelAt(k, img.width)
            value == pixel_value(img.px[p])
            offwhite == value >= an.off_white_threshold
            \* && short-circuits: the window is scanned only for a light enough pixel
            called == value >= an.lightness_threshold
            r == darkest_pixel_within(p[1], p[2], an.lightness_distance, img)
            too_light_and_distant == called /\ r.darkest >= an.lightness_threshold
            log == IF called THEN (p :> r) @@ acc.log ELSE acc.log
        IN  IF called /\ r.overflow /\ oc
            THEN [acc EXCEPT !.log = log, !.panicked = TRUE]
            ELSE WhitenLoop(k + 1, img, an, oc,
                    [acc EXCEPT !.log = log,
                                !.visited = [acc.visited EXCEPT
                                    ![p] = offwhite \/ too_light_and_distant]])

AnalyzedImageNew(img) ==
    [graphemes |-> <<>>,
     map |-> [p \in Pixels(img.width, img.height) |-> U32Max],
     width |-> img.width,
     height |-> img.height]

VisitedMapNew(w, h) == [p \in Pixels(w, h) |-> FALSE]

\* No call of is_isolated on its own is under way.
IsoOff ==
    /\ iso_pc = "off"
    /\ iso_graphemes = << >>
    /\ iso_index = 0
    /\ iso_cleaner = DefaultCleaner
    /\ iso_result = [value |-> FALSE, probes |-> << >>, fault |-> FALSE]

\* ImageCleanup::new, lines 121-124: no paths, no export task, progress 0.
ExportOff ==
    /\ image_paths = << >>
    /\ export_task = "none"
    /\ export_i = 0
    /\ export_progess = <<0, 1>>
    /\ export_saved = {}

\* What update has spawned: nothing yet.
NothingSpawned ==
    [spawned_analyze |-> FALSE, spawned_clean |-> FALSE, analyze_in_flight |-> FALSE]

\* ImageCleanup::new, lines 99-126: the demo image analyzed and cleaned, no
\* task, nothing queued.
PreviewOff ==
    /\ previews_needs_analyze = FALSE
    /\ previews_needs_clean = FALSE
    /\ analyze_preview_task = "none"
    /\ clean_preview_task = "none"
    /\ preview_rev = 0
    /\ analyze_input = 0
    /\ analyzed_preview_image = 0
    /\ cleaned_preview_image = 0
    /\ preview_image_handle = 0
    /\ update_log = NothingSpawned

Init ==
    /\ \E s \in Shapes : image \in ImagesOf(s[1], s[2])
    /\ analyzer \in Analyzers
    /\ cleaner = DefaultCleaner
    /\ overflow_checks \in BOOLEAN
    /\ pc = "start"
    /\ visited_map = << >>
    /\ background = {}
    /\ window_log = << >>
    /\ analyzed_image = Unset
    /\ scan = 0
    /\ grapheme = Unset
    /\ stack = << >>
    /\ new_image = Unset
    /\ decisions = << >>
    /\ push_count = << >>
    /\ IsoOff
    /\ ExportOff
    /\ PreviewOff

\* analyze, lines 99-115: allocate the map and the visited map, then whiten.
Whiten ==
    /\ pc = "start"
    /\ LET r == WhitenLoop(0, image, analyzer, overflow_checks,
                    [visited |-> VisitedMapNew(image.width, image.height),
                     log |-> << >>, panicked |-> FALSE])
       IN  /\ window_log' = r.log
           /\ IF r.panicked
              THEN /\ pc' = "panicked"
                   /\ UNCHANGED <<visited_map, background, analyzed_image, push_count>>
              ELSE /\ pc' = "scan"
                   /\ push_count' = [p \in ImagePixels |-> 0]
                   /\ visited_map' = r.visited
                   /\ background' = {p \in ImagePixels : r.visited[p]}
                   /\ analyzed_image' = AnalyzedImageNew(image)
    /\ UNCHANGED <<image, analyzer, cleaner, overflow_checks, scan, grapheme, stack,
                   new_image, decisions>>
    /\ UNCHANGED outsideCore

(***************************************************************************)
(* Grapheme::detect.                                                       *)
(***************************************************************************)
\* NEIGHBORS as an 8-connected flood fill would have it.
NEIGHBORS_diagonal ==
    << <<1, 0>>, <<0, 1>>, <<-1, 0>>, <<0, -1>>,
       <<1, 1>>, <<-1, 1>>, <<-1, -1>>, <<1, -1>> >>

NEIGHBORS == << <<1, 0>>, <<0, 1>>, <<-1, 0>>, <<0, -1>> >>

\* detect, lines 228-235: the grapheme before the first pop.
GraphemeNew(x, y) ==
    [pixels |-> << >>, top |-> y, bottom |-> y, left |-> x, right |-> x,
     manual_override |-> None]

\* expand_box without the test of lines 244-246: left stays the first pixel's x.
expand_box_no_left(g, x, y) ==
    [g EXCEPT !.right = IF x > g.right THEN x ELSE g.right,
              !.top = IF y < g.top THEN y ELSE g.top,
              !.bottom = IF y > g.bottom THEN y ELSE g.bottom]

\* detect, lines 244-255: grow the bounding box to hold (x, y).
expand_box(g, x, y) ==
    [g EXCEPT !.left = IF x < g.left THEN x ELSE g.left,
              !.right = IF x > g.right THEN x ELSE g.right,
              !.top = IF y < g.top THEN y ELSE g.top,
              !.bottom = IF y > g.bottom THEN y ELSE g.bottom]

\* detect, lines 258-261: (x as i32 + dx) as u32 wraps below zero, never panics.
neighbor_of(x, y, n) ==
    <<(x + n[1]) % U32Modulus, (y + n[2]) % U32Modulus>>

\* detect, lines 257-273: push the unvisited neighbours inside the image, in the
\* order of NEIGHBORS, marking each visited as it is pushed.  acc = [stack, visited].
RECURSIVE push_neighbors(_, _, _, _, _)
push_neighbors(i, x, y, img, acc) ==
    IF i > Len(NEIGHBORS) THEN acc
    ELSE
        LET q == neighbor_of(x, y, NEIGHBORS[i])
        IN  IF q[1] >= img.width \/ q[2] >= img.height
            THEN push_neighbors(i + 1, x, y, img, acc)
            ELSE IF acc.visited[q]
            THEN push_neighbors(i + 1, x, y, img, acc)
            ELSE push_neighbors(i + 1, x, y, img,
                    [stack |-> Append(acc.stack, q),
                     visited |-> [acc.visited EXCEPT ![q] = TRUE]])

\* The second loop without the test of lines 118-120: every pixel yet to be
\* looked at starts a flood fill.
Unvisited_every_pixel(k) == k .. image.width * image.height - 1

\* analyze, lines 117-120: the pixels the second loop has yet to look at and
\* that are not visited.
Unvisited(k) ==
    {j \in k .. image.width * image.height - 1 : ~visited_map[PixelAt(j, image.width)]}

\* analyze, lines 117-122, and detect, lines 228-239: skip the visited pixels;
\* at the first unvisited one start a flood fill; with none left, return.
ScanNext ==
    /\ pc = "scan"
    /\ IF Unvisited(scan) = {}
       THEN /\ pc' = "analyzed"
            /\ scan' = image.width * image.height
            /\ UNCHANGED <<visited_map, grapheme, stack, push_count>>
       ELSE LET k == MinOf(Unvisited(scan))
                p == PixelAt(k, image.width)
            IN  /\ pc' = "detect"
                /\ scan' = k + 1
                /\ grapheme' = GraphemeNew(p[1], p[2])
                /\ visited_map' = [visited_map EXCEPT ![p] = TRUE]
                /\ stack' = <<p>>
                /\ push_count' = [push_count EXCEPT ![p] = @ + 1]
    /\ UNCHANGED <<image, analyzer, cleaner, overflow_checks, background, window_log,
                   analyzed_image, new_image, decisions>>
    /\ UNCHANGED outsideCore

\* detect, lines 241-274: one iteration of the while-let loop.
DetectPop ==
    /\ pc = "detect"
    /\ stack # << >>
    /\ LET p == stack[Len(stack)]
           rest == SubSeq(stack, 1, Len(stack) - 1)
           pushed == [grapheme EXCEPT
                        !.pixels = Append(@, <<p[1], p[2], image.px[p]>>)]
           r == push_neighbors(1, p[1], p[2], image,
                               [stack |-> rest, visited |-> visited_map])
           \* the pixels this iteration pushed: what the stack holds beyond rest
           pushes == Len(rest) + 1 .. Len(r.stack)
       IN  /\ grapheme' = expand_box(pushed, p[1], p[2])
           /\ stack' = r.stack
           /\ visited_map' = r.visited
           /\ push_count' = [q \in DOMAIN push_count |->
                    push_count[q] + Cardinality({j \in pushes : r.stack[j] = q})]
    /\ UNCHANGED <<image, analyzer, cleaner, overflow_checks, pc, background,
                   window_log, analyzed_image, scan, new_image, decisions>>
    /\ UNCHANGED outsideCore

\* set_grapheme_at for every pixel of a grapheme, analyze lines 123-125.
label_pixels(map, pixels, i) ==
    [p \in DOMAIN map |->
        IF \E j \in 1 .. Len(pixels) : <<pixels[j][1], pixels[j][2]>> = p
        THEN i ELSE map[p]]

\* push_grapheme labelling after the push: the pixels get the index len() has then.
push_grapheme_label_after_push(ai, g) ==
    [ai EXCEPT !.map = label_pixels(ai.map, g.pixels, Len(ai.graphemes) + 1),
               !.graphemes = Append(ai.graphemes, g)]

\* analyze, lines 123-126: the index the pixels are labelled with, and the push.
push_grapheme(ai, g) ==
    [ai EXCEPT !.map = label_pixels(ai.map, g.pixels, Len(ai.graphemes)),
               !.graphemes = Append(ai.graphemes, g)]

\* detect returns (line 276) once the stack is drained; analyze labels the
\* grapheme's pixels and pushes it (lines 123-126).
DetectReturn ==
    /\ pc = "detect"
    /\ stack = << >>
    /\ analyzed_image' = push_grapheme(analyzed_image, grapheme)
    /\ grapheme' = Unset
    /\ pc' = "scan"
    /\ UNCHANGED <<image, analyzer, cleaner, overflow_checks, visited_map, background,
                   window_log, scan, stack, new_image, decisions, push_count>>
    /\ UNCHANGED outsideCore

(***************************************************************************)
(* ImageCleaner::clean and is_isolated.                                    *)
(***************************************************************************)
\* The cleaner configurations handed to clean: thresholds of the size of the
\* model's images beside the defaults' oversized margin, and the fill colours
\* of the preview cleaner, which tell a removed grapheme from the background.
Cleaners ==
    { [speck_size_threshold |-> s,
       page_margins |-> <<mh, mv>>,
       isolation_distance_threshold |-> d,
       isolation_size_threshold |-> z,
       speck_fill_color |-> Magenta,
       background_fill_color |-> White] :
         s \in {0, 1}, mh \in {0, 1, DefaultPageMargin}, mv \in {0, 1, DefaultPageMargin},
         d \in {1, 2}, z \in {1, 2} }

positive_difference(a, b) == IF a >= b THEN a - b ELSE b - a

\* inside_margins with | for ||: both subtractions are always evaluated.
inside_margins_eager(g, cl, width, height) ==
    LET c1 == g.top < cl.page_margins[2]
        s2 == U32Sub(height, cl.page_margins[2])
        c2 == g.bottom >= s2.v
        c3 == g.left < cl.page_margins[1]
        s4 == U32Sub(width, cl.page_margins[1])
        c4 == g.right >= s4.v
    IN  [value |-> c1 \/ c2 \/ c3 \/ c4,
         evaluated |-> {"height - margin", "width - margin"},
         overflow |-> s2.overflow \/ s4.overflow]

\* clean, lines 151-154.  || short-circuits: each u32 subtraction is evaluated
\* only when every test to its left is false.
inside_margins(g, cl, width, height) ==
    LET c1 == g.top < cl.page_margins[2]
        s2 == U32Sub(height, cl.page_margins[2])
        c2 == g.bottom >= s2.v
        c3 == g.left < cl.page_margins[1]
        s4 == U32Sub(width, cl.page_margins[1])
        c4 == g.right >= s4.v
    IN  [value |-> c1 \/ c2 \/ c3 \/ c4,
         evaluated |-> (IF ~c1 THEN {"height - margin"} ELSE {})
                       \cup (IF ~c1 /\ ~c2 /\ ~c3 THEN {"width - margin"} ELSE {}),
         overflow |-> \/ (~c1 /\ s2.overflow)
                      \/ (~c1 /\ ~c2 /\ ~c3 /\ s4.overflow)]

\* is_isolated, lines 176-185: the index the i-th iteration looks at, of n graphemes.
\* The wrap below zero taken one short.
probe_index_wrap_off_by_one(grapheme_index, i, n) ==
    LET negative == i % 2 = 1
        index == grapheme_index + (1 + i \div 2) * (IF negative THEN -1 ELSE 1)
    IN  IF index < 0 THEN n - 1 - (-index)
        ELSE IF index >= n THEN index - n
        ELSE index

probe_index(grapheme_index, i, n) ==
    LET negative == i % 2 = 1
        index == grapheme_index + (1 + i \div 2) * (IF negative THEN -1 ELSE 1)
    IN  IF index < 0 THEN n - (-index)
        ELSE IF index >= n THEN index - n
        ELSE index

\* The distance test with || between the two axes.
within_distance_threshold_any_axis(g, o, cl) ==
    \/ positive_difference(g.top, o.top) < cl.isolation_distance_threshold
    \/ positive_difference(g.bottom, o.bottom) < cl.isolation_distance_threshold
    \/ positive_difference(g.left, o.left) < cl.isolation_distance_threshold
    \/ positive_difference(g.right, o.right) < cl.isolation_distance_threshold

\* is_isolated, lines 196-203.
within_distance_threshold(g, o, cl) ==
    /\ \/ positive_difference(g.top, o.top) < cl.isolation_distance_threshold
       \/ positive_difference(g.bottom, o.bottom) < cl.isolation_distance_threshold
    /\ \/ positive_difference(g.left, o.left) < cl.isolation_distance_threshold
       \/ positive_difference(g.right, o.right) < cl.isolation_distance_threshold

\* is_isolated, lines 174-210: the loop from iteration i on.
\* Indices are 0-based as in the program; sequences are 1-based.
\* The range 0..graphemes.len().
loop_bound_len(graphemes) == Len(graphemes)

\* The range 0..graphemes.len() - 2.
loop_bound_short(graphemes) == Len(graphemes) - 2

\* is_isolated, line 174: the end of the range 0..graphemes.len() - 1.
loop_bound(graphemes) == Len(graphemes) - 1

RECURSIVE isolated_loop(_, _, _, _, _)
isolated_loop(i, grapheme_index, graphemes, cl, probes) ==
    IF i >= loop_bound(graphemes)
    THEN [value |-> TRUE, probes |-> probes, fault |-> FALSE]
    ELSE
        LET index == probe_index(grapheme_index, i, Len(graphemes))
            seen == Append(probes, index)
        IN  IF index < 0 \/ index >= Len(graphemes)
            THEN [value |-> FALSE, probes |-> seen, fault |-> TRUE]
            ELSE
                LET other_grapheme == graphemes[index + 1]
                    not_big_enough ==
                        Len(other_grapheme.pixels) < cl.isolation_size_threshold
                IN  IF not_big_enough
                    THEN isolated_loop(i + 1, grapheme_index, graphemes, cl, seen)
                    ELSE IF within_distance_threshold(
                                graphemes[grapheme_index + 1], other_grapheme, cl)
                    THEN [value |-> FALSE, probes |-> seen, fault |-> FALSE]
                    ELSE isolated_loop(i + 1, grapheme_index, graphemes, cl, seen)

\* is_isolated, lines 168-211.  fault: an index outside the list, or the loop
\* bound graphemes.len() - 1 taken of an empty list.
is_isolated(grapheme_index, graphemes, cl) ==
    IF grapheme_index >= Len(graphemes)
    THEN [value |-> FALSE, probes |-> << >>, fault |-> TRUE]
    ELSE IF Len(graphemes[grapheme_index + 1].pixels) > cl.isolation_size_threshold
    THEN [value |-> FALSE, probes |-> << >>, fault |-> FALSE]
    ELSE isolated_loop(0, grapheme_index, graphemes, cl, << >>)

\* classify with too_small computed with < in place of <=.
classify_too_small_strict(i, ai, cl) ==
    LET g == ai.graphemes[i + 1]
        too_small == Len(g.pixels) < cl.speck_size_threshold
        margins == inside_margins(g, cl, ai.width, ai.height)
        isolated == is_isolated(i, ai.graphemes, cl)
    IN  IF g.manual_override # None
        THEN [manual_override |-> g.manual_override,
              too_small |-> FALSE, inside_margins |-> FALSE, is_isolated |-> FALSE,
              evaluated |-> {}, overflow |-> FALSE, fault |-> FALSE,
              removed |-> g.manual_override = SomeFalse]
        ELSE [manual_override |-> None,
              too_small |-> too_small,
              inside_margins |-> margins.value,
              is_isolated |-> isolated.value,
              evaluated |-> margins.evaluated,
              overflow |-> margins.overflow,
              fault |-> isolated.fault,
              removed |-> too_small \/ margins.value \/ isolated.value]

\* clean, lines 141-157: what clean computes for grapheme i (0-based).
classify(i, ai, cl) ==
    LET g == ai.graphemes[i + 1]
        too_small == Len(g.pixels) <= cl.speck_size_threshold
        margins == inside_margins(g, cl, ai.width, ai.height)
        isolated == is_isolated(i, ai.graphemes, cl)
    IN  IF g.manual_override # None
        THEN [manual_override |-> g.manual_override,
              too_small |-> FALSE, inside_margins |-> FALSE, is_isolated |-> FALSE,
              evaluated |-> {}, overflow |-> FALSE, fault |-> FALSE,
              removed |-> g.manual_override = SomeFalse]
        ELSE [manual_override |-> None,
              too_small |-> too_small,
              inside_margins |-> margins.value,
              is_isolated |-> isolated.value,
              evaluated |-> margins.evaluated,
              overflow |-> margins.overflow,
              fault |-> isolated.fault,
              removed |-> too_small \/ margins.value \/ isolated.value]

put_pixel(img, x, y, color) == [img EXCEPT !.px[<<x, y>>] = color]

\* Grapheme::fill, lines 288-292, from pixel j on.
RECURSIVE fill_from(_, _, _, _)
fill_from(j, g, img, color) ==
    IF j > Len(g.pixels) THEN img
    ELSE fill_from(j + 1, g, put_pixel(img, g.pixels[j][1], g.pixels[j][2], color), color)

fill(g, img, color) == fill_from(1, g, img, color)

\* Grapheme::draw, lines 294-298, from pixel j on.
RECURSIVE draw_from(_, _, _)
draw_from(j, g, img) ==
    IF j > Len(g.pixels) THEN img
    ELSE draw_from(j + 1, g,
            put_pixel(img, g.pixels[j][1], g.pixels[j][2], g.pixels[j][3]))

\* draw painting every pixel of the grapheme in its first pixel's colour.
draw_first_colour(g, img) ==
    IF g.pixels = << >> THEN img ELSE fill(g, img, g.pixels[1][3])

draw(g, img) == draw_from(1, g, img)

\* clean, lines 135-138: the new image, every pixel the background fill colour.
NewImage(ai, cl) ==
    [width |-> ai.width, height |-> ai.height,
     px |-> [p \in Pixels(ai.width, ai.height) |-> cl.background_fill_color]]

\* clean, lines 140-163: the loop over the graphemes from index i (0-based) on.
\* acc = [img, decisions, panicked].
RECURSIVE CleanLoop(_, _, _, _, _)
CleanLoop(i, ai, cl, oc, acc) ==
    IF i >= Len(ai.graphemes) THEN acc
    ELSE
        LET g == ai.graphemes[i + 1]
            d == classify(i, ai, cl)
            log == Append(acc.decisions, d)
        IN  IF (d.overflow /\ oc) \/ d.fault
            THEN [acc EXCEPT !.decisions = log, !.panicked = TRUE]
            ELSE CleanLoop(i + 1, ai, cl, oc,
                    [acc EXCEPT !.decisions = log,
                                !.img = IF d.removed
                                        THEN fill(g, acc.img, cl.speck_fill_color)
                                        ELSE draw(g, acc.img)])

\* clean, lines 134-166, on the AnalyzedImage analyze returned.
Clean ==
    /\ pc = "analyzed"
    /\ \E cl \in Cleaners :
        LET r == CleanLoop(0, analyzed_image, cl, overflow_checks,
                    [img |-> NewImage(analyzed_image, cl),
                     decisions |-> << >>, panicked |-> FALSE])
        IN  /\ cleaner' = cl
            /\ decisions' = r.decisions
            /\ IF r.panicked
               THEN pc' = "clean_panicked" /\ UNCHANGED new_image
               ELSE pc' = "cleaned" /\ new_image' = r.img
    /\ UNCHANGED <<image, analyzer, overflow_checks, visited_map, background,
                   window_log, analyzed_image, scan, grapheme, stack, push_count>>
    /\ UNCHANGED outsideCore

Next ==
    \/ Whiten
    \/ ScanNext
    \/ DetectPop
    \/ DetectReturn
    \/ Clean

Spec == Init /\ [][Next]_vars

\* analyze on its own, from its call on.
InitAnalyze ==
    /\ image = Unset
    /\ analyzer = Unset
    /\ cleaner = DefaultCleaner
    /\ overflow_checks = FALSE
    /\ pc = "call"
    /\ visited_map = << >>
    /\ background = {}
    /\ window_log = << >>
    /\ analyzed_image = Unset
    /\ scan = 0
    /\ grapheme = Unset
    /\ stack = << >>
    /\ new_image = Unset
    /\ decisions = << >>
    /\ push_count = << >>
    /\ IsoOff
    /\ ExportOff
    /\ PreviewOff

\* analyze, line 98: the call, self and the image being its arguments.
CallAnalyze ==
    /\ pc = "call"
    /\ \E s \in Shapes : image' \in ImagesOf(s[1], s[2])
    /\ analyzer' \in Analyzers
    /\ overflow_checks' \in BOOLEAN
    /\ pc' = "start"
    /\ UNCHANGED <<cleaner, visited_map, background, window_log, analyzed_image, scan,
                   grapheme, stack, new_image, decisions, push_count>>
    /\ UNCHANGED outsideCore

\* analyze, lines 117-127, with detect: the steps of the second loop.
FloodFills ==
    \/ ScanNext
    \/ DetectPop
    \/ DetectReturn

AnalyzeNext ==
    \/ CallAnalyze
    \/ Whiten
    \/ FloodFills

\* Every step of analyze changes its position: pc or the stack.
analyzePosition == <<pc, scan, stack>>

\* analyze is a function running on its thread: as long as its second loop
\* has a step to take it takes one.  (The whitening loop, two nested for
\* loops over the pixels and a bounded window, is the single step Whiten.)
SpecAnalyze == InitAnalyze /\ [][AnalyzeNext]_vars /\ WF_analyzePosition(FloodFills)

(***************************************************************************)
(* is_isolated on its own: the function applied to a grapheme list, an     *)
(* index into it and a cleaner.                                            *)
(*                                                                         *)
(* The lists are lists analyze returns.  Each grapheme is a horizontal run *)
(* of dark pixels; the next one lies on the same row behind a gap of white *)
(* pixels, or two rows further down.  No two runs touch, and their order   *)
(* is the raster order of their first pixels, so analyze (with             *)
(* lightness_distance = 0) returns exactly this list for the image that    *)
(* holds these runs on white.                                              *)
(***************************************************************************)
\* A list holds at most MaxList graphemes.
MaxList == 4

RunLengths == {1, 2}
Gaps == {1, 2}
RowStarts == {0, 2}

\* The grapheme detect builds for a run of len pixels from (x, y) rightwards.
Run(x, y, len) ==
    [pixels |-> [j \in 1 .. len |-> <<x + j - 1, y, Dark>>],
     top |-> y, bottom |-> y, left |-> x, right |-> x + len - 1,
     manual_override |-> None]

\* The runs that can follow g in raster order without touching it.
RunsAfter(g) ==
    {Run(g.right + 1 + gap, g.top, len) : gap \in Gaps, len \in RunLengths}
    \cup {Run(x, g.top + 2, len) : x \in RowStarts, len \in RunLengths}

RECURSIVE ListsOfLen(_)
ListsOfLen(n) ==
    IF n = 1 THEN {<<Run(x, 0, len)>> : x \in RowStarts, len \in RunLengths}
    ELSE UNION {{Append(l, g) : g \in RunsAfter(l[Len(l)])} : l \in ListsOfLen(n - 1)}

IsoLists == UNION {ListsOfLen(n) : n \in 1 .. MaxList}

\* Cleaners whose isolation thresholds are of the size of the runs.
IsoCleaners ==
    { [DefaultCleaner EXCEPT !.isolation_distance_threshold = d,
                             !.isolation_size_threshold = z] :
        d \in {1, 3}, z \in {1, 2} }

\* The analyze/clean pipeline is not running.
CoreOff ==
    /\ image = [width |-> 0, height |-> 0, px |-> << >>]
    /\ analyzer = [off_white_threshold |-> DefaultOffWhiteThreshold,
                   lightness_threshold |-> DefaultLightnessThreshold,
                   lightness_distance |-> 0]
    /\ cleaner = DefaultCleaner
    /\ overflow_checks = FALSE
    /\ pc = "off"
    /\ visited_map = << >>
    /\ background = {}
    /\ window_log = << >>
    /\ analyzed_image = Unset
    /\ scan = 0
    /\ grapheme = Unset
    /\ stack = << >>
    /\ new_image = Unset
    /\ decisions = << >>
    /\ push_count = << >>

InitIsolated ==
    /\ CoreOff
    /\ iso_pc = "call"
    /\ iso_graphemes \in IsoLists
    /\ iso_index \in 0 .. Len(iso_graphemes) - 1
    /\ iso_cleaner \in IsoCleaners
    /\ iso_result = [value |-> FALSE, probes |-> << >>, fault |-> FALSE]
    /\ ExportOff
    /\ PreviewOff

\* clean, line 155: self.is_isolated(i, &analyzed_image.graphemes).
IsIsolated ==
    /\ iso_pc = "call"
    /\ iso_result' = is_isolated(iso_index, iso_graphemes, iso_cleaner)
    /\ iso_pc' = "returned"
    /\ UNCHANGED <<iso_graphemes, iso_index, iso_cleaner>>
    /\ UNCHANGED <<coreVars, exportVars, previewVars>>

NextIsolated == IsIsolated

SpecIsolated == InitIsolated /\ [][NextIsolated]_vars

(***************************************************************************)
(* Batch export: export_all (main.rs, lines 159-179) run as a task, and    *)
(* the buttons of update that start, cancel and reap it.  A page is        *)
(* modelled by what happens to its file.                                   *)
(***************************************************************************)
\* A batch has at most MaxPages pages.
MaxPages == 3

\* What can happen to a page: all goes well, Reader::open fails, decode
\* fails, or save fails.
Fates == {"ok", "open_fails", "decode_fails", "save_fails"}

RECURSIVE PathLists(_)
PathLists(n) ==
    IF n = 0 THEN {<< >>}
    ELSE UNION {{Append(l, f) : f \in Fates} : l \in PathLists(n - 1)}

\* update, line 279: the user has opened some images.
InitExport ==
    /\ CoreOff
    /\ IsoOff
    /\ PreviewOff
    /\ \E n \in 1 .. MaxPages : image_paths \in PathLists(n)
    /\ export_task = "none"
    /\ export_i = 0
    /\ export_progess = <<0, 1>>
    /\ export_saved = {}

outsideExport == <<coreVars, isoVars, previewVars>>

\* update, lines 348-350: "Export all" clicked; enabled when there are images
\* and no export task.  Files saved by an earlier export are not tracked
\* across exports.
ExportAllClicked ==
    /\ image_paths # << >>
    /\ export_task = "none"
    /\ export_task' = "spawned"
    /\ export_saved' = {}
    /\ export_i' = 0
    /\ UNCHANGED <<image_paths, export_progess>>
    /\ UNCHANGED outsideExport

\* export_all, line 165: *progress.lock().unwrap() = 0.0.
ExportEnter ==
    /\ export_task = "spawned"
    /\ export_task' = "running"
    /\ export_progess' = <<0, 1>>
    /\ UNCHANGED <<image_paths, export_i, export_saved>>
    /\ UNCHANGED outsideExport

\* export_all, lines 167-177: one iteration of the loop, from yield_now to
\* save.  Each unwrap of a failed Result panics, which ends the task.
ExportPage ==
    /\ export_task = "running"
    /\ export_i < Len(image_paths)
    /\ export_progess' = <<export_i + 1, Len(image_paths)>>
    /\ IF image_paths[export_i + 1] = "ok"
       THEN /\ export_saved' = export_saved \cup {export_i}
            /\ export_i' = export_i + 1
            /\ UNCHANGED export_task
       ELSE /\ export_task' = "panicked"
            /\ UNCHANGED <<export_i, export_saved>>
    /\ UNCHANGED image_paths
    /\ UNCHANGED outsideExport

\* export_all, lines 167 and 179: the loop is over, the task returns.
ExportReturn ==
    /\ export_task = "running"
    /\ export_i >= Len(image_paths)
    /\ export_task' = "finished"
    /\ UNCHANGED <<image_paths, export_i, export_progess, export_saved>>
    /\ UNCHANGED outsideExport

\* update, lines 361-363: "Cancel" clicked; abort ends the task at its next
\* yield_now.
ExportCancel ==
    /\ export_task \in {"spawned", "running"}
    /\ export_task' = "cancelled"
    /\ UNCHANGED <<image_paths, export_i, export_progess, export_saved>>
    /\ UNCHANGED outsideExport

\* update, lines 353-355: the task is finished (returned, panicked or
\* aborted), the handle is dropped.
ExportReaped ==
    /\ export_task \in {"finished", "panicked", "cancelled"}
    /\ export_task' = "none"
    /\ UNCHANGED <<image_paths, export_i, export_progess, export_saved>>
    /\ UNCHANGED outsideExport

NextExport ==
    \/ ExportAllClicked
    \/ ExportEnter
    \/ ExportPage
    \/ ExportReturn
    \/ ExportCancel
    \/ ExportReaped

SpecExport == InitExport /\ [][NextExport]_vars

(***************************************************************************)
(* The preview pipeline: update (main.rs, lines 183-251 and the widgets    *)
(* that queue work) and the two tasks it spawns.  An image is modelled by  *)
(* its revision: the number of preview requests made when it was chosen.   *)
(***************************************************************************)
\* The user asks for a new preview image at most MaxRequests times.
MaxRequests == 2

\* What the widgets of one frame report: nothing that queues work; a new
\* preview image (Open images, Reimport, page change: queue_analyze_preview);
\* a change of a cleaner parameter (queue_clean_preview).
GuiEvents == {"none", "new_preview_image", "cleaner_changed"}

InitPreview ==
    /\ CoreOff
    /\ IsoOff
    /\ ExportOff
    /\ PreviewOff

outsidePreview == <<coreVars, isoVars, exportVars>>

\* update, lines 183-251, then the widgets of lines 253-460.
Update ==
    \E ev \in GuiEvents :
        LET \* lines 185-192
            analyze_seen == analyze_preview_task = "finished"
            analyze_task1 == IF analyze_seen THEN "none" ELSE analyze_preview_task
            needs_clean1 == previews_needs_clean \/ analyze_seen
            \* line 194
            is_analyzing == analyze_task1 # "none"
            \* lines 195-218
            spawn_analyze == previews_needs_analyze /\ ~is_analyzing
            analyze_task2 == IF spawn_analyze THEN "running" ELSE analyze_task1
            \* lines 220-230
            clean_seen == clean_preview_task = "finished"
            clean_task1 == IF clean_seen THEN "none" ELSE clean_preview_task
            \* lines 232-235
            is_cleaning == clean_task1 # "none"
            processing == is_analyzing \/ is_cleaning
            spawn_clean == needs_clean1 /\ ~processing
        IN  /\ ev = "new_preview_image" => preview_rev < MaxRequests
            /\ analyze_preview_task' = analyze_task2
            /\ analyze_input' = IF spawn_analyze THEN preview_rev ELSE analyze_input
            /\ clean_preview_task' = IF spawn_clean THEN "running" ELSE clean_task1
            /\ preview_image_handle' =
                    IF clean_seen THEN cleaned_preview_image ELSE preview_image_handle
            /\ previews_needs_analyze' =
                    \/ ev = "new_preview_image"
                    \/ previews_needs_analyze /\ ~spawn_analyze
            /\ previews_needs_clean' =
                    \/ ev = "cleaner_changed"
                    \/ needs_clean1 /\ ~spawn_clean
            /\ preview_rev' =
                    IF ev = "new_preview_image" THEN preview_rev + 1 ELSE preview_rev
            /\ update_log' =
                    [spawned_analyze |-> spawn_analyze,
                     spawned_clean |-> spawn_clean,
                     analyze_in_flight |-> spawn_clean /\ analyze_task2 = "running"]
            /\ UNCHANGED <<analyzed_preview_image, cleaned_preview_image>>
            /\ UNCHANGED outsidePreview

\* update, lines 212-217: the body of the analyze task, run by the runtime.
AnalyzeTaskRuns ==
    /\ analyze_preview_task = "running"
    /\ analyzed_preview_image' = analyze_input
    /\ analyze_preview_task' = "finished"
    /\ UNCHANGED <<previews_needs_analyze, previews_needs_clean, clean_preview_task,
                   preview_rev, analyze_input, cleaned_preview_image,
                   preview_image_handle, update_log>>
    /\ UNCHANGED outsidePreview

\* update, lines 247-250: the body of the clean task, run by the runtime; it
\* holds the lock of the analyzed image while it cleans.
CleanTaskRuns ==
    /\ clean_preview_task = "running"
    /\ cleaned_preview_image' = analyzed_preview_image
    /\ clean_preview_task' = "finished"
    /\ UNCHANGED <<previews_needs_analyze, previews_needs_clean, analyze_preview_task,
                   preview_rev, analyze_input, analyzed_preview_image,
                   preview_image_handle, update_log>>
    /\ UNCHANGED outsidePreview

NextPreview ==
    \/ Update
    \/ AnalyzeTaskRuns
    \/ CleanTaskRuns

SpecPreview == InitPreview /\ [][NextPreview]_vars

(***************************************************************************)
(* Vocabulary of the properties.                                           *)
(***************************************************************************)
\* analyze has allocated its AnalyzedImage (line 99) and whitened the image.
Allocated == pc \notin {"call", "start", "panicked"}

\* analyze has returned its AnalyzedImage.
Analyzed == pc \in {"analyzed", "cleaned", "clean_panicked"}

Graphemes == analyzed_image.graphemes

\* The pixel coordinates of a grapheme's pixel list.
PixelSet(g) == {<<g.pixels[j][1], g.pixels[j][2]>> : j \in 1 .. Len(g.pixels)}

\* The (0-based) indices of the graphemes whose pixel list holds p.
Owners(p) == {i \in 0 .. Len(Graphemes) - 1 : p \in PixelSet(Graphemes[i + 1])}

NonBackground == ImagePixels \ background

Adjacent4(p, q) ==
    \/ p[1] = q[1] /\ positive_difference(p[2], q[2]) = 1
    \/ p[2] = q[2] /\ positive_difference(p[1], q[1]) = 1

\* The pixels joined to those of S by paths of orthogonally adjacent
\* non-background pixels.
RECURSIVE Component(_)
Component(S) ==
    LET T == S \cup {q \in NonBackground : \E p \in S : Adjacent4(p, q)}
    IN  IF T = S THEN S ELSE Component(T)

\* The window of Chebyshev radius d around p, cut to the image.
ClampedWindow(p, d) ==
    {q \in ImagePixels : positive_difference(q[1], p[1]) <= d
                         /\ positive_difference(q[2], p[2]) <= d}

\* The classification rule of the specification, with the clamped window.
RuleBackground(p) ==
    LET value == pixel_value(image.px[p])
        darkest == MinOf({pixel_value(image.px[q]) :
                            q \in ClampedWindow(p, analyzer.lightness_distance)})
    IN  \/ value >= analyzer.off_white_threshold
        \/ value >= analyzer.lightness_threshold
           /\ darkest >= analyzer.lightness_threshold

(***************************************************************************)
(* C1.  After analyze, every pixel is either background (it is marked in   *)
(* the background mask, its map entry is the u32::MAX sentinel and no      *)
(* grapheme's pixel list holds it) or its map entry is the index of the    *)
(* one grapheme whose pixel list holds it; never both, never neither.      *)
(***************************************************************************)
C1_Partition ==
    Analyzed =>
        \A p \in ImagePixels :
            LET m == analyzed_image.map[p]
            IN  \/ m = U32Max /\ Owners(p) = {} /\ p \in background
                \/ m # U32Max /\ Owners(p) = {m} /\ p \notin background

\* analyze returned two graphemes or more, and some pixel is background.
C1_Witness ==
    /\ pc = "analyzed"
    /\ Len(Graphemes) >= 2
    /\ \E p \in ImagePixels : analyzed_image.map[p] = U32Max

(***************************************************************************)
(* C2.  Every grapheme analyze produced has top <= bottom and              *)
(* left <= right, holds every member pixel inside its box, and has a       *)
(* member pixel on each of the four edges of the box.                      *)
(***************************************************************************)
C2_BoundingBox ==
    Allocated =>
        \A i \in 1 .. Len(Graphemes) :
            LET g == Graphemes[i]
            IN  /\ g.top <= g.bottom
                /\ g.left <= g.right
                /\ \A p \in PixelSet(g) :
                    g.left <= p[1] /\ p[1] <= g.right /\ g.top <= p[2] /\ p[2] <= g.bottom
                /\ \E p \in PixelSet(g) : p[1] = g.left
                /\ \E p \in PixelSet(g) : p[1] = g.right
                /\ \E p \in PixelSet(g) : p[2] = g.top
                /\ \E p \in PixelSet(g) : p[2] = g.bottom

\* A grapheme whose box was grown to the left of and below its first pixel.
C2_Witness ==
    /\ pc = "analyzed"
    /\ \E i \in 1 .. Len(Graphemes) :
        LET g == Graphemes[i]
        IN  /\ g.left < g.pixels[1][1]
            /\ g.bottom > g.pixels[1][2]
            /\ g.left < g.right

(***************************************************************************)
(* C3.  A grapheme whose pixel count is greater than or equal to           *)
(* isolation_size_threshold, equality included, is never found isolated.   *)
(***************************************************************************)
C3_AnchorNeverIsolated ==
    \A i \in 1 .. Len(decisions) :
        (/\ decisions[i].manual_override = None
         /\ Len(Graphemes[i].pixels) >= cleaner.isolation_size_threshold)
            => decisions[i].is_isolated = FALSE

(***************************************************************************)
(* C4.  clean returns an image of the analyzed image's width and height    *)
(* whose every pixel is background_fill_color if the pixel is background,  *)
(* speck_fill_color if it belongs to a removed grapheme, and the pixel's   *)
(* source colour if it belongs to a kept grapheme.                         *)
(***************************************************************************)
C4_Rendering ==
    pc = "cleaned" =>
        /\ new_image.width = analyzed_image.width
        /\ new_image.height = analyzed_image.height
        /\ DOMAIN new_image.px = ImagePixels
        /\ \A p \in ImagePixels :
            IF p \in background
            THEN new_image.px[p] = cleaner.background_fill_color
            ELSE /\ Owners(p) # {}
                 /\ \A i \in Owners(p) :
                        new_image.px[p] = IF decisions[i + 1].removed
                                          THEN cleaner.speck_fill_color
                                          ELSE image.px[p]

\* A cleaned image with a background pixel, a removed grapheme and a kept
\* grapheme of two colours.
C4_Witness ==
    /\ pc = "cleaned"
    /\ background # {}
    /\ \E i \in 1 .. Len(decisions) : decisions[i].removed
    /\ \E i \in 1 .. Len(decisions) :
        /\ ~decisions[i].removed
        /\ \E j, k \in 1 .. Len(Graphemes[i].pixels) :
            Graphemes[i].pixels[j][3] # Graphemes[i].pixels[k][3]

(***************************************************************************)
(* C5.  The graphemes are exactly the maximal 4-connected components of    *)
(* the non-background pixels: every non-background pixel lies in a         *)
(* grapheme whose pixels are exactly the pixels joined to it by paths of   *)
(* orthogonally adjacent non-background pixels, and every grapheme is such *)
(* a component.                                                            *)
(***************************************************************************)
C5_Components ==
    Analyzed =>
        /\ \A p \in NonBackground :
            \E i \in 1 .. Len(Graphemes) : PixelSet(Graphemes[i]) = Component({p})
        /\ \A i \in 1 .. Len(Graphemes) :
            /\ PixelSet(Graphemes[i]) # {}
            /\ \A p \in PixelSet(Graphemes[i]) :
                p \in NonBackground /\ PixelSet(Graphemes[i]) = Component({p})

\* Two graphemes that touch only diagonally, and one of several pixels.
C5_Witness ==
    /\ pc = "analyzed"
    /\ \E i, j \in 1 .. Len(Graphemes) :
        /\ i # j
        /\ \E p \in PixelSet(Graphemes[i]), q \in PixelSet(Graphemes[j]) :
            positive_difference(p[1], q[1]) = 1 /\ positive_difference(p[2], q[2]) = 1
    /\ \E i \in 1 .. Len(Graphemes) : Len(Graphemes[i].pixels) >= 2

(***************************************************************************)
(* C6.  A pixel is classified background exactly when its mean intensity   *)
(* is >= off_white_threshold, or is >= lightness_threshold with the        *)
(* minimum over the window of radius lightness_distance, clamped to the    *)
(* image, >= lightness_threshold; near the image edges too.                *)
(***************************************************************************)
C6_Classification ==
    Allocated =>
        \A p \in ImagePixels : (p \in background) <=> RuleBackground(p)

(***************************************************************************)
(* C7.  No call of darkest_pixel_within underflows or overflows unsigned   *)
(* arithmetic, and each scans exactly the (2*distance+1)^2 box cut to the  *)
(* image.                                                                  *)
(***************************************************************************)
C7_WindowClamped ==
    \A p \in DOMAIN window_log :
        /\ ~window_log[p].overflow
        /\ window_log[p].scanned = ClampedWindow(p, analyzer.lightness_distance)

(***************************************************************************)
(* C8.  The inside-margins check evaluates height - vertical_margin and    *)
(* width - horizontal_margin only when they are not negative, clean never  *)
(* panics, and with a margin larger than the image every grapheme without  *)
(* an override is inside the margins.                                      *)
(***************************************************************************)
C8_MarginsNoUnderflow ==
    /\ pc # "clean_panicked"
    /\ \A i \in 1 .. Len(decisions) :
        LET d == decisions[i]
        IN  /\ ~d.overflow
            /\ "height - margin" \in d.evaluated
                => cleaner.page_margins[2] <= analyzed_image.height
            /\ "width - margin" \in d.evaluated
                => cleaner.page_margins[1] <= analyzed_image.width
            /\ (/\ d.manual_override = None
                /\ \/ cleaner.page_margins[2] > analyzed_image.height
                   \/ cleaner.page_margins[1] > analyzed_image.width)
                => d.inside_margins = TRUE

\* clean ran with a horizontal margin wider than the image over a grapheme
\* clear of the (zero) vertical margin, and evaluated height - margin for it.
C8_Witness ==
    /\ pc = "cleaned"
    /\ cleaner.page_margins[1] > analyzed_image.width
    /\ \E i \in 1 .. Len(decisions) :
        /\ decisions[i].inside_margins = TRUE
        /\ "height - margin" \in decisions[i].evaluated

(***************************************************************************)
(* C9.  An image of zero width or zero height is rejected: analyze         *)
(* produces no AnalyzedImage for it and clean no output image.             *)
(***************************************************************************)
C9_ZeroSizedRejected ==
    (image.width = 0 \/ image.height = 0) => ~Allocated

\* Every pixel of the image is off-white: a blank page.
AllOffWhite ==
    \A p \in ImagePixels : pixel_value(image.px[p]) >= analyzer.off_white_threshold

(***************************************************************************)
(* C10.  On an image whose every pixel is off-white analyze returns, with  *)
(* zero graphemes, and clean returns on that result without an isolation   *)
(* search, every pixel of its image being background_fill_color.           *)
(***************************************************************************)
C10_BlankPage ==
    AllOffWhite =>
        /\ pc \notin {"panicked", "clean_panicked"}
        /\ Analyzed => Len(Graphemes) = 0
        /\ pc = "cleaned" =>
            /\ decisions = << >>
            /\ \A p \in ImagePixels : new_image.px[p] = cleaner.background_fill_color

\* What remains of C10 wherever analyze returns: no grapheme, no isolation
\* search, an image of the background fill colour.
C10_BlankPageOnceAnalyzed ==
    (AllOffWhite /\ Analyzed) =>
        /\ Len(Graphemes) = 0
        /\ pc # "clean_panicked"
        /\ pc = "cleaned" =>
            /\ decisions = << >>
            /\ \A p \in ImagePixels : new_image.px[p] = cleaner.background_fill_color
(***************************************************************************)
(* Properties of is_isolated, under SpecIsolated.                          *)
(***************************************************************************)
IsoReturned == iso_pc = "returned"

IsoGrapheme == iso_graphemes[iso_index + 1]

\* The indices (0-based) of the graphemes other than the one asked about.
IsoOthers == (0 .. Len(iso_graphemes) - 1) \ {iso_index}

IsoBelowThreshold ==
    Len(IsoGrapheme.pixels) < iso_cleaner.isolation_size_threshold

\* |a - b| < d
Closer(a, b, d) == a - b < d /\ b - a < d

\* Grapheme k is an anchor of the grapheme asked about: it reaches the size
\* threshold and passes the distance test.
IsoAnchor(k) ==
    LET g == IsoGrapheme
        o == iso_graphemes[k + 1]
        d == iso_cleaner.isolation_distance_threshold
    IN  /\ Len(o.pixels) >= iso_cleaner.isolation_size_threshold
        /\ Closer(g.top, o.top, d) \/ Closer(g.bottom, o.bottom, d)
        /\ Closer(g.left, o.left, d) \/ Closer(g.right, o.right, d)

ProbeSet == {iso_result.probes[j] : j \in 1 .. Len(iso_result.probes)}

\* C11: with a list of exactly one grapheme, is_isolated computes no index
\* (the loop body never runs, so nothing wraps and nothing faults) and returns
\* true when the grapheme's pixel count is below isolation_size_threshold.
C11_SingleElement ==
    (IsoReturned /\ Len(iso_graphemes) = 1) =>
        /\ iso_result.probes = << >>
        /\ ~iso_result.fault
        /\ IsoBelowThreshold => iso_result.value

C11_Witness ==
    /\ IsoReturned
    /\ Len(iso_graphemes) = 1
    /\ IsoBelowThreshold
    /\ iso_result.value
    /\ iso_result.probes = << >>

(***************************************************************************)
(* Properties of clean's removal rule, under Spec.                         *)
(***************************************************************************)
\* The bounding box of grapheme g reaches into the page margins of cleaner,
\* in plain integers.
InMargins(g) ==
    \/ g.top < cleaner.page_margins[2]
    \/ g.bottom >= analyzed_image.height - cleaner.page_margins[2]
    \/ g.left < cleaner.page_margins[1]
    \/ g.right >= analyzed_image.width - cleaner.page_margins[1]

\* The removal rule for grapheme i (1-based position in the list).
RemovalRule(i) ==
    \/ Len(Graphemes[i].pixels) <= cleaner.speck_size_threshold
    \/ InMargins(Graphemes[i])
    \/ is_isolated(i - 1, Graphemes, cleaner).value

\* Every pixel of grapheme g has colour c in the image clean returned.
Painted(g, c) ==
    \A j \in 1 .. Len(g.pixels) :
        new_image.px[<<g.pixels[j][1], g.pixels[j][2]>>] = c

\* Every pixel of grapheme g has its own colour in the image clean returned.
Kept(g) ==
    \A j \in 1 .. Len(g.pixels) :
        new_image.px[<<g.pixels[j][1], g.pixels[j][2]>>] = g.pixels[j][3]

\* C12: clean removes a grapheme without manual override (paints it with
\* speck_fill_color) if and only if its pixel count is <= speck_size_threshold,
\* or its box reaches into the margins, or is_isolated returns true for it;
\* otherwise it keeps the grapheme's own colours.
C12_RemovalRule ==
    pc = "cleaned" =>
        \A i \in 1 .. Len(Graphemes) :
            Graphemes[i].manual_override = None =>
                /\ decisions[i].removed <=> RemovalRule(i)
                /\ RemovalRule(i) => Painted(Graphemes[i], cleaner.speck_fill_color)
                /\ ~RemovalRule(i) => Kept(Graphemes[i])

\* A grapheme that is neither too small nor isolated, lying inside page
\* margins of (50, 50), was painted with the speck colour.
C12_Witness ==
    /\ pc = "cleaned"
    /\ cleaner.page_margins = <<DefaultPageMargin, DefaultPageMargin>>
    /\ \E i \in 1 .. Len(Graphemes) :
        /\ Graphemes[i].manual_override = None
        /\ Len(Graphemes[i].pixels) > cleaner.speck_size_threshold
        /\ ~is_isolated(i - 1, Graphemes, cleaner).value
        /\ InMargins(Graphemes[i])
        /\ Painted(Graphemes[i], cleaner.speck_fill_color)

\* C13: for a grapheme whose pixel count is below isolation_size_threshold,
\* is_isolated returns false if and only if some other grapheme of the list
\* has a pixel count >= isolation_size_threshold and lies closer than
\* isolation_distance_threshold on one vertical edge (top or bottom) and on
\* one horizontal edge (left or right); so with no grapheme reaching the size
\* threshold every grapheme is isolated.
C13_IsolatedIffNoAnchor ==
    IsoReturned =>
        /\ ~iso_result.fault
        /\ IsoBelowThreshold =>
                (~iso_result.value <=> \E k \in IsoOthers : IsoAnchor(k))
        /\ (\A k \in 0 .. Len(iso_graphemes) - 1 :
                Len(iso_graphemes[k + 1].pixels) < iso_cleaner.isolation_size_threshold)
            => iso_result.value

\* A grapheme below the size threshold is kept by an anchor that is near on
\* both axes, while another big grapheme of the list is not near.
C13_Witness ==
    /\ IsoReturned
    /\ IsoBelowThreshold
    /\ ~iso_result.value
    /\ \E k \in IsoOthers : IsoAnchor(k)
    /\ \E k \in IsoOthers :
        /\ Len(iso_graphemes[k + 1].pixels) >= iso_cleaner.isolation_size_threshold
        /\ ~IsoAnchor(k)

\* Every grapheme of a list of several is below the size threshold, and the
\* one asked about is isolated.
C13_WitnessNoAnchor ==
    /\ IsoReturned
    /\ Len(iso_graphemes) >= 2
    /\ \A k \in 0 .. Len(iso_graphemes) - 1 :
            Len(iso_graphemes[k + 1].pixels) < iso_cleaner.isolation_size_threshold
    /\ iso_result.value

\* The distance in the list, around the circle, between index k and the
\* index asked about.
IndexDistance(k) ==
    LET n == Len(iso_graphemes)
        a == IF k >= iso_index THEN k - iso_index ELSE iso_index - k
    IN  IF a <= n - a THEN a ELSE n - a

\* C14 as stated, for the cleaner of the call: some grapheme list has a
\* grapheme below isolation_size_threshold for which is_isolated returns true
\* although another grapheme at or above the threshold passes the distance
\* test against it.
C14_Approximation ==
    \E l \in IsoLists :
        \E gi \in 0 .. Len(l) - 1 :
            /\ Len(l[gi + 1].pixels) < iso_cleaner.isolation_size_threshold
            /\ is_isolated(gi, l, iso_cleaner).value
            /\ \E k \in (0 .. Len(l) - 1) \ {gi} :
                /\ Len(l[k + 1].pixels) >= iso_cleaner.isolation_size_threshold
                /\ within_distance_threshold(l[gi + 1], l[k + 1], iso_cleaner)

\* C14, amended: the search is exhaustive.  Whenever is_isolated returns true
\* for a grapheme below isolation_size_threshold, it has probed every other
\* grapheme of the list and none of them is an anchor, however far away in
\* the list the anchor would be; the index order sets only the order of the
\* probes.
C14_Exhaustive ==
    (IsoReturned /\ IsoBelowThreshold /\ iso_result.value) =>
        /\ ProbeSet = IsoOthers
        /\ \A k \in IsoOthers : ~IsoAnchor(k)

\* The only anchor of the grapheme lies two places away in the list, behind
\* nearer graphemes on both sides, and is_isolated found it.
C14_Witness ==
    /\ IsoReturned
    /\ IsoBelowThreshold
    /\ Len(iso_graphemes) >= 4
    /\ \E k \in IsoOthers : IsoAnchor(k) /\ IndexDistance(k) >= 2
    /\ \A k \in IsoOthers : IsoAnchor(k) => IndexDistance(k) >= 2
    /\ ~iso_result.value

\* The place in the list the i-th probe (i from 0) of the alternating search
\* +1, -1, +2, -2, ... looks at, around the circle of n places.
Alternating(i, n) ==
    LET step == 1 + i \div 2
    IN  IF i % 2 = 0 THEN (iso_index + step) % n
        ELSE (iso_index + n - (step % n)) % n

\* C17: for a list of n >= 2 graphemes and every index into it, the search
\* probes the places +1, -1, +2, -2, ... around the circle; every probe lies
\* in 0..n, none is the index asked about, no place is probed twice, and a
\* search that does not return early on an anchor makes n - 1 probes, one of
\* each other grapheme.
C17_ProbeIndices ==
    (IsoReturned /\ Len(iso_graphemes) >= 2) =>
        LET n == Len(iso_graphemes)
            probes == iso_result.probes
        IN  /\ ~iso_result.fault
            /\ Len(probes) <= n - 1
            /\ \A j \in 1 .. Len(probes) :
                /\ probes[j] \in 0 .. n - 1
                /\ probes[j] # iso_index
                /\ probes[j] = Alternating(j - 1, n)
                /\ \A k \in 1 .. Len(probes) : probes[k] = probes[j] => k = j
            /\ iso_result.value => (Len(probes) = n - 1 /\ ProbeSet = IsoOthers)
            /\ (~iso_result.value /\ probes # << >>) => IsoAnchor(probes[Len(probes)])

\* A full search from the first place of a list of four: the second probe
\* wraps around below zero to the last place.
C17_Witness ==
    /\ IsoReturned
    /\ Len(iso_graphemes) = 4
    /\ iso_index = 0
    /\ iso_result.value
    /\ iso_result.probes = <<1, 3, 2>>

(***************************************************************************)
(* Properties of the batch export, under SpecExport.                       *)
(***************************************************************************)
\* The export task has ended by itself: it returned or it panicked.
ExportEnded == export_task \in {"finished", "panicked"}

\* Page k (0-based) follows a page whose file fails.
AfterFailure(k) == \E f \in 0 .. k - 1 : image_paths[f + 1] # "ok"

\* C16: a failure on one page of a batch export is local to that page: once
\* the export task has ended by itself, every later page whose own file is
\* in order has been analyzed, cleaned and saved.
C16_FailureIsLocal ==
    ExportEnded =>
        \A k \in 0 .. Len(image_paths) - 1 :
            (AfterFailure(k) /\ image_paths[k + 1] = "ok") => k \in export_saved

(***************************************************************************)
(* Properties of analyze's second loop and of detect, under SpecAnalyze.   *)
(***************************************************************************)
\* The places <<i, j>> of the pixel lists that hold pixel p.
Occurrences(p) ==
    {ij \in (1 .. Len(Graphemes)) \X (1 .. MaxPixels) :
        /\ ij[2] <= Len(Graphemes[ij[1]].pixels)
        /\ Graphemes[ij[1]].pixels[ij[2]][1] = p[1]
        /\ Graphemes[ij[1]].pixels[ij[2]][2] = p[2]}

\* No pixel is pushed twice, no background pixel is pushed at all, the stack
\* is empty outside detect, and once analyze has returned every other pixel
\* has been pushed once and stands once in the pixel lists.
PushedOnce ==
    Allocated =>
        /\ pc # "detect" => stack = << >>
        /\ \A p \in ImagePixels :
            /\ push_count[p] <= 1
            /\ p \in background => push_count[p] = 0
            /\ (Analyzed /\ p \notin background) =>
                    /\ push_count[p] = 1
                    /\ Cardinality(Occurrences(p)) = 1
            /\ (Analyzed /\ p \in background) => Occurrences(p) = {}

\* C18: analyze terminates on every image: once the whitening loop is through,
\* every flood fill drains its stack and hands over its grapheme, and analyze
\* returns; no pixel is ever pushed twice, no background pixel is pushed, and
\* at the return every non-background pixel has been pushed exactly once and
\* occurs exactly once in the pixel lists of all graphemes together.
C18_Terminates ==
    /\ [](pc = "scan" => <>(pc = "analyzed"))
    /\ [](pc = "detect" => <>(pc = "scan" /\ stack = << >>))
    /\ []PushedOnce

\* analyze has returned two graphemes, one of several pixels, beside
\* background pixels.
C18_Witness ==
    /\ pc = "analyzed"
    /\ Len(Graphemes) >= 2
    /\ background # {}
    /\ \E i \in 1 .. Len(Graphemes) : Len(Graphemes[i].pixels) >= 2
    /\ \A p \in ImagePixels \ background : push_count[p] = 1

(***************************************************************************)
(* Properties of the preview pipeline, under SpecPreview.                  *)
(***************************************************************************)
\* C19: update never starts a clean-preview task while an analyze-preview
\* task is in flight, be it one spawned earlier in the same call of update.
C19_NoCleanWhileAnalyzing ==
    update_log.spawned_clean => ~update_log.analyze_in_flight

====
